---------------------------- MODULE Spec2Model ----------------------------
(***************************************************************************)
(* pyovpn: a certificate-authority backed OpenVPN provisioning script.     *)
(*                                                                         *)
(* The store is the destination directory of one PyOvpn object.  Texts     *)
(* (file contents, names, documents) are sequences of atoms: an atom is    *)
(* one character ("-", " ", "\n", a letter of a name) or an opaque run of  *)
(* characters with no run of five dashes and no whitespace at its ends.    *)
(***************************************************************************)
EXTENDS Naturals, Sequences, FiniteSets, TLC

(***************************************************************************)
(* Bounds of the model and constants of the program.                       *)
(***************************************************************************)
\* how many distinct outcomes of random.choices the model draws from
NumSeeds == 2
\* k=16 of random.choices
IdLen == 16

\* the longest text before the PEM block of a certificate file, in atoms
MaxLead == 5

(***************************************************************************)
(* Text primitives.                                                        *)
(***************************************************************************)
Whitespace == {" ", "\n"}

RECURSIVE LStrip(_)
LStrip(s) ==
  IF s # <<>> /\ Head(s) \in Whitespace THEN LStrip(Tail(s)) ELSE s

RECURSIVE RStrip(_)
RStrip(s) ==
  IF s # <<>> /\ s[Len(s)] \in Whitespace
  THEN RStrip(SubSeq(s, 1, Len(s) - 1))
  ELSE s

\* str.strip()
Strip(s) == RStrip(LStrip(s))

Dashes == <<"-", "-", "-", "-", "-">>

\* the least index >= i at which the separator '-----' starts, 0 if none
RECURSIVE FindDashes(_, _)
FindDashes(s, i) ==
  IF i + 4 > Len(s) THEN 0
  ELSE IF SubSeq(s, i, i + 4) = Dashes THEN i
  ELSE FindDashes(s, i + 1)

\* str.split('-----'): leftmost, non-overlapping separators
RECURSIVE SplitDashes(_)
SplitDashes(s) ==
  LET j == FindDashes(s, 1) IN
  IF j = 0 THEN <<s>>
  ELSE <<SubSeq(s, 1, j - 1)>> \o SplitDashes(SubSeq(s, j + 5, Len(s)))

\* template % mapping: every placeholder atom replaced by its value, once
RECURSIVE Interpolate(_, _)
Interpolate(tpl, m) ==
  IF tpl = <<>> THEN <<>>
  ELSE (IF Head(tpl) \in DOMAIN m THEN m[Head(tpl)] ELSE <<Head(tpl)>>)
       \o Interpolate(Tail(tpl), m)

(***************************************************************************)
(* The templates of pyovpn.py.                                             *)
(***************************************************************************)
COMMON_CONF ==
  << "dev tun", "\n", "proto udp", "\n", "cipher AES-256-CBC", "\n",
     "auth SHA256", "\n", "compress lz4", "\n", "verb 3", "\n",
     "persist-key", "\n", "persist-tun", "\n", "tls-version-min 1.2", "\n" >>

SERVER_CONF ==
  << "port 1194", "\n", "server 10.8.0.0 255.255.255.0", "\n",
     "keepalive 10 120", "\n", "remote-cert-tls client", "\n",
     "user nobody", "\n", "group nogroup", "\n",
     "crl-verify /etc/openvpn/crl.pem", "\n", "key-direction 0", "\n" >>

CLIENT_CONF ==
  << "client", "\n",
     "remote", " ", "%(hostname)s", " ", "1194", "\n",
     "resolv-retry infinite", "\n", "nobind", "\n",
     "remote-cert-tls server", "\n",
     "verify-x509-name", " ", "%(name)s", " ", "name", "\n" >>

INLINE_CONF ==
  << "<ca>", "\n", "%(ca)s", "\n", "</ca>", "\n",
     "<cert>", "\n" >>
  \o Dashes \o << "BEGIN CERTIFICATE" >> \o Dashes \o << "\n",
     "%(cert)s", "\n" >>
  \o Dashes \o << "END CERTIFICATE" >> \o Dashes \o << "\n",
     "</cert>", "\n",
     "<key>", "\n", "%(key)s", "\n", "</key>", "\n",
     "<tls-crypt>", "\n", "%(tlskey)s", "\n", "</tls-crypt>", "\n" >>

(***************************************************************************)
(* json.dump / json.load of the deployment record.                         *)
(***************************************************************************)
RECURSIVE JsonEscape(_)
JsonEscape(s) ==
  IF s = <<>> THEN <<>>
  ELSE (IF Head(s) \in {"\"", "\\"} THEN <<"\\", Head(s)>> ELSE <<Head(s)>>)
       \o JsonEscape(Tail(s))

JsonDump(rec) ==
  << "{", "\"server_name\"", ":", " ", "\"" >> \o JsonEscape(rec.server_name)
  \o << "\"", ",", " ", "\"hostname\"", ":", " ", "\"" >>
  \o JsonEscape(rec.hostname) \o << "\"", "}" >>

\* the string literal whose first character is at index i
RECURSIVE JsonString(_, _)
JsonString(t, i) ==
  IF i > Len(t) \/ t[i] = "\"" THEN <<>>
  ELSE IF t[i] = "\\" THEN <<t[i + 1]>> \o JsonString(t, i + 2)
  ELSE <<t[i]>> \o JsonString(t, i + 1)

JsonValue(t, key) ==
  LET k == CHOOSE i \in 1..Len(t) : t[i] = key
  IN  JsonString(t, k + 4)

JsonLoad(t) ==
  [ server_name |-> JsonValue(t, "\"server_name\""),
    hostname    |-> JsonValue(t, "\"hostname\"") ]

(***************************************************************************)
(* Names and inputs.                                                       *)
(***************************************************************************)
\* string.ascii_uppercase + string.digits
Alphabet ==
  << "A", "B", "C", "D", "E", "F", "G", "H", "I", "J", "K", "L", "M",
     "N", "O", "P", "Q", "R", "S", "T", "U", "V", "W", "X", "Y", "Z",
     "0", "1", "2", "3", "4", "5", "6", "7", "8", "9" >>

\* one character short: k = IdLen - 1
ChoicesShort(seed) ==
  [i \in 1..(IdLen - 1) |-> Alphabet[((seed * (7 * i + 3)) % Len(Alphabet)) + 1]]

\* one outcome of random.choices(Alphabet, k=IdLen)
Choices(seed) ==
  [i \in 1..IdLen |-> Alphabet[((seed * (7 * i + 3)) % Len(Alphabet)) + 1]]

RandomChoices == { Choices(s) : s \in 1..NumSeeds }

ServerPrefix == << "s", "e", "r", "v", "e", "r", "_" >>

\* 'server_%s' % ''.join(random.choices(...))
ServerName(choices) == ServerPrefix \o choices

ServerNames == { ServerName(c) : c \in RandomChoices }

Alice == << "a", "l", "i", "c", "e" >>

\* client names given on the command line
ClientNames == { Alice }

AllNames == ClientNames \cup ServerNames

\* hostnames given on the command line to server
Hostnames == { << "v", "p", "n" >>, << "h", "\"", "x" >> }

Procs == { 1, 2 }

(***************************************************************************)
(* Files.                                                                  *)
(***************************************************************************)
NoFile == [ex |-> FALSE, data |-> <<>>]
MkFile(d) == [ex |-> TRUE, data |-> d]

Pem(label, body) ==
  Dashes \o << "BEGIN " \o label >> \o Dashes \o << "\n" >> \o body
  \o << "\n" >> \o Dashes \o << "END " \o label >> \o Dashes \o << "\n" >>

(***************************************************************************)
(* The artifacts of the external collaborators (easy-rsa 3.0.4, openvpn).  *)
(***************************************************************************)
CaBody == << "ca-body" >>
CaCrtText == Pem("CERTIFICATE", CaBody)

CertBody(name) == << "crt:" >> \o name
KeyBody(name) == << "key:" >> \o name

\* pki/issued/<name>.crt: openssl's text dump, then the PEM block
CertText(name, serial, role) ==
  << "Certificate:", "\n", " ", "Serial Number:", " ", ToString(serial), "\n",
     " ", "Subject: CN=" >> \o name \o << "\n", " ", role, "\n" >>
  \o Pem("CERTIFICATE", CertBody(name))

\* pki/private/<name>.key
KeyText(name) == Pem("PRIVATE KEY", KeyBody(name))

\* tls.key, as openvpn --genkey --secret writes it
TlsKeyText ==
  << "#", "\n", "# 2048 bit OpenVPN static key", "\n", "#", "\n" >>
  \o Pem("OpenVPN Static key V1", << "static-key" >>)

RECURSIVE IndexLines(_, _)
IndexLines(index, i) ==
  IF i > Len(index) THEN <<>>
  ELSE << index[i].status, "\t", ToString(i), "\t", "/CN=" >> \o index[i].name
       \o << "\n" >> \o IndexLines(index, i + 1)

\* pki/index.txt
IndexText(index) == IndexLines(index, 1)

RECURSIVE RevokedLines(_, _)
RevokedLines(index, i) ==
  IF i > Len(index) THEN <<>>
  ELSE (IF index[i].status = "R" THEN << "Serial Number:", " ", ToString(i), "\n" >>
        ELSE <<>>)
       \o RevokedLines(index, i + 1)

\* pki/crl.pem
CrlText(index) == Pem("X509 CRL", RevokedLines(index, 1))

EmptyPki ==
  [ dir      |-> FALSE,
    ca       |-> NoFile,
    hasIndex |-> FALSE,
    index    |-> <<>>,
    issued   |-> [n \in AllNames |-> NoFile],
    private  |-> [n \in AllNames |-> NoFile],
    crl      |-> NoFile ]

IndexNames(pki) == { pki.index[i].name : i \in 1..Len(pki.index) }
SerialOf(pki, name) == CHOOSE i \in 1..Len(pki.index) : pki.index[i].name = name
StatusOf(pki, name) == pki.index[SerialOf(pki, name)].status
RevokedNames(pki) == { n \in IndexNames(pki) : StatusOf(pki, n) = "R" }

ToolFail(pki, err) == [ok |-> FALSE, err |-> err, pki |-> pki]
ToolOk(pki) == [ok |-> TRUE, err |-> "", pki |-> pki]

\* easyrsa --batch init-pki: a fresh, empty pki directory
ToolInitPki(pki) == ToolOk([EmptyPki EXCEPT !.dir = TRUE])

\* easyrsa --batch build-ca nopass
ToolBuildCa(pki) ==
  IF ~pki.dir THEN ToolFail(pki, "NotInitialized")
  ELSE IF pki.ca.ex THEN ToolFail(pki, "AlreadyExists")
  ELSE ToolOk([pki EXCEPT !.ca = MkFile(CaCrtText), !.hasIndex = TRUE,
                          !.index = <<>>])

\* easyrsa build-server-full|build-client-full <name> nopass
ToolBuildFull(pki, name, role) ==
  IF ~(pki.dir /\ pki.ca.ex) THEN ToolFail(pki, "NotInitialized")
  ELSE IF pki.issued[name].ex \/ pki.private[name].ex \/ name \in IndexNames(pki)
  THEN ToolFail(pki, "IdentityAlreadyExists")
  ELSE ToolOk([pki EXCEPT
         !.index = Append(@, [name |-> name, status |-> "V"]),
         !.issued[name] = MkFile(CertText(name, Len(pki.index) + 1, role)),
         !.private[name] = MkFile(KeyText(name))])

\* easyrsa --batch revoke <name>
ToolRevoke(pki, name) ==
  IF ~(pki.dir /\ pki.ca.ex) THEN ToolFail(pki, "NotInitialized")
  ELSE IF ~pki.issued[name].ex \/ name \notin IndexNames(pki)
  THEN ToolFail(pki, "NotFound")
  ELSE IF StatusOf(pki, name) = "R" THEN ToolFail(pki, "AlreadyRevoked")
  ELSE ToolOk([pki EXCEPT !.index[SerialOf(pki, name)].status = "R"])

\* easyrsa gen-crl
ToolGenCrl(pki) ==
  IF ~(pki.dir /\ pki.ca.ex) THEN ToolFail(pki, "NotInitialized")
  ELSE ToolOk([pki EXCEPT !.crl = MkFile(CrlText(pki.index))])

\* the toolchain run on one argument list; fault: it exits non-zero for a
\* reason of its own (openssl, the disk), leaving the pki as it was.  In the
\* steps below fault is likewise the failure of the network, the archive,
\* openvpn or the file system, which raises and leaves the store as it was.
Toolchain(pki, args, fault) ==
  IF fault THEN ToolFail(pki, "DriverFailure")
  ELSE CASE args[1] = "build-server-full" -> ToolBuildFull(pki, args[2], "server")
         [] args[1] = "build-client-full" -> ToolBuildFull(pki, args[2], "client")
         [] args[1] = "gen-crl" -> ToolGenCrl(pki)
         [] args[1] = "--batch" /\ args[2] = "init-pki" -> ToolInitPki(pki)
         [] args[1] = "--batch" /\ args[2] = "build-ca" -> ToolBuildCa(pki)
         [] args[1] = "--batch" /\ args[2] = "revoke" -> ToolRevoke(pki, args[3])
         [] OTHER -> ToolFail(pki, "DriverFailure")

(***************************************************************************)
(* The methods of PyOvpn, as functions of the store.                       *)
(*                                                                         *)
(* A store f is a record: dest (the directory exists), tgz (easyrsa.tgz),  *)
(* unpacked (the extracted archive directory), easyrsa (easyrsa/), pki,    *)
(* tls (tls.key), config (config.json), server_conf (server.conf) and      *)
(* ovpn (<name>.ovpn).  A step returns [ok, err, fs].                      *)
(***************************************************************************)
EmptyStore ==
  [ dest        |-> FALSE,
    tgz         |-> FALSE,
    unpacked    |-> FALSE,
    easyrsa     |-> FALSE,
    pki         |-> EmptyPki,
    tls         |-> NoFile,
    config      |-> NoFile,
    server_conf |-> NoFile,
    ovpn        |-> [n \in AllNames |-> NoFile] ]

Ok(f) == [ok |-> TRUE, err |-> "", fs |-> f]
Raise(f, err) == [ok |-> FALSE, err |-> err, fs |-> f]

\* PyOvpn.read: open(...).read().strip()
Read(file) ==
  IF file.ex THEN [ok |-> TRUE, data |-> Strip(file.data)]
  ELSE [ok |-> FALSE, data |-> <<>>]

\* cert.split('-----')[2].strip(): the part counted from the front
ReadCertFromFront(file) ==
  LET cert == Read(file)
      parts == SplitDashes(cert.data)
  IN  IF cert.ok /\ Len(parts) >= 3
      THEN [ok |-> TRUE, data |-> Strip(parts[3])]
      ELSE [ok |-> FALSE, data |-> <<>>]

\* the whole certificate file, delimiters and text dump included
ReadCertWhole(file) == Read(file)

\* PyOvpn.read_cert: cert.split('-----')[-3].strip()
ReadCert(file) ==
  LET cert == Read(file)
      parts == SplitDashes(cert.data)
  IN  IF cert.ok /\ Len(parts) >= 3
      THEN [ok |-> TRUE, data |-> Strip(parts[Len(parts) - 2])]
      ELSE [ok |-> FALSE, data |-> <<>>]

\* an _inline_conf that refuses an identity the index marks revoked
InlineConfValidOnly(f, name) ==
  LET ca     == Read(f.pki.ca)
      cert   == ReadCert(f.pki.issued[name])
      key    == Read(f.pki.private[name])
      tlskey == Read(f.tls)
  IN  IF ca.ok /\ cert.ok /\ key.ok /\ tlskey.ok /\ name \notin RevokedNames(f.pki)
      THEN [ok |-> TRUE,
            data |-> Interpolate(INLINE_CONF,
                       ("%(ca)s" :> ca.data) @@ ("%(cert)s" :> cert.data)
                       @@ ("%(key)s" :> key.data) @@ ("%(tlskey)s" :> tlskey.data))]
      ELSE [ok |-> FALSE, data |-> <<>>]

\* PyOvpn._inline_conf
InlineConf(f, name) ==
  LET ca     == Read(f.pki.ca)
      cert   == ReadCert(f.pki.issued[name])
      key    == Read(f.pki.private[name])
      tlskey == Read(f.tls)
  IN  IF ca.ok /\ cert.ok /\ key.ok /\ tlskey.ok
      THEN [ok |-> TRUE,
            data |-> Interpolate(INLINE_CONF,
                       ("%(ca)s" :> ca.data) @@ ("%(cert)s" :> cert.data)
                       @@ ("%(key)s" :> key.data) @@ ("%(tlskey)s" :> tlskey.data))]
      ELSE [ok |-> FALSE, data |-> <<>>]

\* subprocess.call in place of check_call: the exit status is dropped
EasyrsaCall(f, args, fault) ==
  IF ~(f.dest /\ f.easyrsa) THEN Raise(f, "IOFailure")
  ELSE Ok([f EXCEPT !.pki = Toolchain(f.pki, args, fault).pki])

\* PyOvpn.easyrsa: subprocess.check_call(['easyrsa/easyrsa'] + args, cwd=dest)
Easyrsa(f, args, fault) ==
  IF ~(f.dest /\ f.easyrsa) THEN Raise(f, "IOFailure")
  ELSE LET run == Toolchain(f.pki, args, fault)
       IN  IF run.ok THEN Ok([f EXCEPT !.pki = run.pki])
           ELSE Raise(f, run.err)

\* shutil.rmtree(self.dest, ignore_errors=True), then os.makedirs(self.dest)
MakedirsFresh(f) == Ok([EmptyStore EXCEPT !.dest = TRUE])

\* os.makedirs(self.dest, exist_ok=True)
MakedirsExistOk(f) == Ok([f EXCEPT !.dest = TRUE])

\* os.makedirs(self.dest)
Makedirs(f) ==
  IF f.dest THEN Raise(f, "AlreadyExists")
  ELSE Ok([f EXCEPT !.dest = TRUE])

\* a download that removes the destination again when it fails
UrlretrieveRollback(f, fault) ==
  IF ~f.dest THEN Raise(f, "IOFailure")
  ELSE IF fault THEN Raise(EmptyStore, "IOFailure")
  ELSE Ok([f EXCEPT !.tgz = TRUE])

\* urllib.request.urlretrieve(EASYRSAURL, easyrsa_tgz)
Urlretrieve(f, fault) ==
  IF fault \/ ~f.dest THEN Raise(f, "IOFailure")
  ELSE Ok([f EXCEPT !.tgz = TRUE])

\* tarfile.open(easyrsa_tgz); tar.extractall(self.dest)
Extract(f, fault) ==
  IF fault \/ ~f.tgz THEN Raise(f, "IOFailure")
  ELSE Ok([f EXCEPT !.unpacked = TRUE])

\* os.rename(<archive directory>, easyrsa_dest); os.remove(easyrsa_tgz)
Install(f) ==
  IF ~f.unpacked \/ ~f.tgz THEN Raise(f, "IOFailure")
  ELSE Ok([f EXCEPT !.unpacked = FALSE, !.easyrsa = TRUE, !.tgz = FALSE])

\* with open(self.config, 'w') as f: json.dump({...}, f)
DumpConfig(f, server_name, hostname, fault) ==
  IF fault \/ ~f.dest THEN Raise(f, "IOFailure")
  ELSE Ok([f EXCEPT !.config =
             MkFile(JsonDump([server_name |-> server_name, hostname |-> hostname]))])

\* subprocess.call in place of check_call for openvpn: its exit status dropped
GenkeyCall(f, fault) ==
  IF ~f.dest THEN Raise(f, "DriverFailure")
  ELSE IF fault THEN Ok(f)
  ELSE Ok([f EXCEPT !.tls = MkFile(TlsKeyText)])

\* subprocess.check_call(['openvpn', '--genkey', '--secret', <dest>/tls.key])
Genkey(f, fault) ==
  IF fault \/ ~f.dest THEN Raise(f, "DriverFailure")
  ELSE Ok([f EXCEPT !.tls = MkFile(TlsKeyText)])

\* open(os.path.join(self.dest, 'server.conf'), 'w')
OpenServerConf(f, fault) ==
  IF fault \/ ~f.dest THEN Raise(f, "IOFailure")
  ELSE Ok([f EXCEPT !.server_conf = MkFile(<<>>)])

\* COMMON_CONF + SERVER_CONF + self._inline_conf(server_name)
RenderServerConfig(f, server_name) ==
  LET inline == InlineConf(f, server_name)
  IN  [ok |-> inline.ok,
       data |-> IF inline.ok THEN COMMON_CONF \o SERVER_CONF \o inline.data
                ELSE <<>>]

\* f.write(COMMON_CONF + SERVER_CONF + self._inline_conf(server_name))
WriteServerConf(f, server_name, fault) ==
  LET doc == RenderServerConfig(f, server_name)
  IN  IF fault \/ ~doc.ok THEN Raise(f, "IOFailure")
      ELSE Ok([f EXCEPT !.server_conf = MkFile(doc.data)])

\* with open(self.config) as f: config = json.load(f)
LoadConfig(f) ==
  IF f.config.ex THEN [ok |-> TRUE, config |-> JsonLoad(f.config.data)]
  ELSE [ok |-> FALSE, config |-> [server_name |-> <<>>, hostname |-> <<>>]]

\* open(os.path.join(self.dest, name + '.ovpn'), 'w')
OpenOvpn(f, name, fault) ==
  IF fault \/ ~f.dest THEN Raise(f, "IOFailure")
  ELSE Ok([f EXCEPT !.ovpn[name] = MkFile(<<>>)])

\* the two values of the mapping exchanged
ClientMappingSwapped(config) ==
  ("%(name)s" :> config.hostname) @@ ("%(hostname)s" :> config.server_name)

\* the mapping CLIENT_CONF is interpolated with
ClientMapping(config) ==
  ("%(name)s" :> config.server_name) @@ ("%(hostname)s" :> config.hostname)

\* COMMON_CONF + CLIENT_CONF % {...} + self._inline_conf(name)
RenderClientConfig(f, config, name) ==
  LET inline == InlineConf(f, name)
  IN  [ok |-> inline.ok,
       data |-> IF inline.ok
                THEN COMMON_CONF \o Interpolate(CLIENT_CONF, ClientMapping(config))
                     \o inline.data
                ELSE <<>>]

\* a render that refreshes the revocation list before it reads the store
WriteOvpnRefreshingCrl(f, config, name, fault) ==
  LET g == [f EXCEPT !.pki = Toolchain(f.pki, << "gen-crl" >>, FALSE).pki]
      doc == RenderClientConfig(g, config, name)
  IN  IF fault \/ ~doc.ok THEN Raise(g, "IOFailure")
      ELSE Ok([g EXCEPT !.ovpn[name] = MkFile(doc.data)])

\* f.write(COMMON_CONF + CLIENT_CONF % {...} + self._inline_conf(name))
WriteOvpn(f, config, name, fault) ==
  LET doc == RenderClientConfig(f, config, name)
  IN  IF fault \/ ~doc.ok THEN Raise(f, "IOFailure")
      ELSE Ok([f EXCEPT !.ovpn[name] = MkFile(doc.data)])

\* print(self.read(['pki', 'index.txt']))
ListIndex(f) ==
  IF f.pki.hasIndex THEN Read(MkFile(IndexText(f.pki.index))) ELSE Read(NoFile)

(***************************************************************************)
(* The operations, as the steps each one runs in order.                    *)
(***************************************************************************)
\* a generate_server whose setup ends with the generation of tls.key
GenerateServerKeyFirst ==
  << "makedirs", "urlretrieve", "extract", "install", "init_pki", "build_ca",
     "genkey", "gen_name", "dump_config", "build_server",
     "open_server_conf", "write_server_conf" >>

\* PyOvpn.generate_server, with setup_easyrsa inlined
GenerateServer ==
  << "makedirs", "urlretrieve", "extract", "install", "init_pki", "build_ca",
     "gen_name", "dump_config", "build_server", "genkey",
     "open_server_conf", "write_server_conf" >>

\* a generate_client that asks openvpn for a fresh tls.key before it issues
GenerateClientRekeying ==
  << "load_config", "genkey", "build_client", "open_ovpn", "write_ovpn" >>

\* PyOvpn.generate_client
GenerateClient == << "load_config", "build_client", "open_ovpn", "write_ovpn" >>

\* a revoke that regenerates the list before it revokes
RevokeCrlFirst == << "gen_crl", "revoke" >>

\* revoke without the gen-crl that follows it
RevokeOnly == << "revoke" >>

\* PyOvpn.revoke
Revoke == << "revoke", "gen_crl" >>

\* a list_ that regenerates the revocation list before it prints the index
ListRefreshing == << "crl_gen", "list" >>

\* PyOvpn.list_
List == << "list" >>

\* a crl that prints crl.pem as it finds it
CrlReadOnly == << "crl_read" >>

\* PyOvpn.crl
Crl == << "crl_gen", "crl_read" >>

\* the dispatch table of __main__
Actions ==
  ("server" :> GenerateServer) @@ ("client" :> GenerateClient)
  @@ ("revoke" :> Revoke) @@ ("list" :> List) @@ ("crl" :> Crl)

(***************************************************************************)
(* State.                                                                  *)
(*   fs      the store (the destination directory)                         *)
(*   todo    per process, the steps its operation has still to run         *)
(*   arg     per process, the command-line argument of its operation       *)
(*   local   per process, server_name and config of the running method     *)
(*   result  per process, the operation and how it ended                   *)
(*   out     per process, what it printed                                  *)
(*   hist    history: whether generate_server has returned, the names for  *)
(*           which revoke has returned, and the server name and hostname   *)
(*           generate_server handed to json.dump                           *)
(***************************************************************************)
VARIABLES fs, todo, arg, local, result, out, hist

vars == << fs, todo, arg, local, result, out, hist >>

NoLocal ==
  [ server_name |-> <<>>,
    config      |-> [server_name |-> <<>>, hostname |-> <<>>] ]

Init ==
  /\ fs = EmptyStore
  /\ todo = [p \in Procs |-> <<>>]
  /\ arg = [p \in Procs |-> <<>>]
  /\ local = [p \in Procs |-> NoLocal]
  /\ result = [p \in Procs |-> [op |-> "none", status |-> "none", err |-> ""]]
  /\ out = [p \in Procs |-> <<>>]
  /\ hist = [bootstrapped |-> FALSE, revoked |-> {}, record |-> NoLocal.config]

Idle(p) == todo[p] = <<>>
At(p, step) == todo[p] # <<>> /\ Head(todo[p]) = step
Returns(p) == Len(todo[p]) = 1

\* names given on the command line to client and revoke: a client name, or
\* the name of the server as config.json shows it
NameArgs ==
  ClientNames \cup (IF fs.config.ex THEN { hist.record.server_name } ELSE {})

\* the arguments an operation is invoked with
ArgsOf(verb) ==
  CASE verb = "server" -> Hostnames
    [] verb \in {"client", "revoke"} -> NameArgs
    [] OTHER -> { <<>> }

\* __main__: one process runs actions[args.action[0]](*args.action[1:])
Invoke(p, verb) ==
  /\ \A q \in Procs : Idle(q)
  /\ \E a \in ArgsOf(verb) :
       /\ todo' = [todo EXCEPT ![p] = Actions[verb]]
       /\ arg' = [arg EXCEPT ![p] = a]
  /\ local' = [local EXCEPT ![p] = NoLocal]
  /\ result' = [result EXCEPT ![p] = [op |-> verb, status |-> "running", err |-> ""]]
  /\ out' = [out EXCEPT ![p] = <<>>]
  /\ UNCHANGED << fs, hist >>

\* the step of p ends as r = [ok, err, fs] with locals loc: the next step, or
\* the return or exception that ends the process
Advance(p, r, loc) ==
  /\ fs' = r.fs
  /\ local' = [local EXCEPT ![p] = IF r.ok /\ ~Returns(p) THEN loc ELSE NoLocal]
  /\ todo' = [todo EXCEPT ![p] = IF r.ok THEN Tail(@) ELSE <<>>]
  /\ result' = [result EXCEPT
       ![p].status = IF ~r.ok THEN "fail" ELSE IF Returns(p) THEN "ok" ELSE @,
       ![p].err = IF r.ok THEN @ ELSE r.err]
  /\ hist' = IF r.ok /\ At(p, "dump_config")
             THEN [hist EXCEPT !.record = [server_name |-> local[p].server_name,
                                           hostname |-> arg[p]]]
             ELSE IF r.ok /\ Returns(p)
             THEN CASE result[p].op = "server" -> [hist EXCEPT !.bootstrapped = TRUE]
                    [] result[p].op = "revoke" ->
                         [hist EXCEPT !.revoked = @ \cup {arg[p]}]
                    [] OTHER -> hist
             ELSE hist
  /\ UNCHANGED arg

(***************************************************************************)
(* generate_server(hostname)                                               *)
(***************************************************************************)
StepMakedirs(p) ==
  /\ At(p, "makedirs")
  /\ Advance(p, Makedirs(fs), local[p])
  /\ UNCHANGED out

StepUrlretrieve(p) ==
  /\ At(p, "urlretrieve")
  /\ \E fault \in BOOLEAN : Advance(p, Urlretrieve(fs, fault), local[p])
  /\ UNCHANGED out

StepExtract(p) ==
  /\ At(p, "extract")
  /\ \E fault \in BOOLEAN : Advance(p, Extract(fs, fault), local[p])
  /\ UNCHANGED out

StepInstall(p) ==
  /\ At(p, "install")
  /\ Advance(p, Install(fs), local[p])
  /\ UNCHANGED out

StepInitPki(p) ==
  /\ At(p, "init_pki")
  /\ \E fault \in BOOLEAN :
       Advance(p, Easyrsa(fs, << "--batch", "init-pki" >>, fault), local[p])
  /\ UNCHANGED out

StepBuildCa(p) ==
  /\ At(p, "build_ca")
  /\ \E fault \in BOOLEAN :
       Advance(p, Easyrsa(fs, << "--batch", "build-ca", "nopass" >>, fault), local[p])
  /\ UNCHANGED out

StepGenName(p) ==
  /\ At(p, "gen_name")
  /\ \E choices \in RandomChoices :
       Advance(p, Ok(fs), [local[p] EXCEPT !.server_name = ServerName(choices)])
  /\ UNCHANGED out

StepDumpConfig(p) ==
  /\ At(p, "dump_config")
  /\ \E fault \in BOOLEAN :
       Advance(p, DumpConfig(fs, local[p].server_name, arg[p], fault), local[p])
  /\ UNCHANGED out

StepBuildServer(p) ==
  /\ At(p, "build_server")
  /\ \E fault \in BOOLEAN :
       Advance(p, Easyrsa(fs, << "build-server-full", local[p].server_name, "nopass" >>,
                          fault), local[p])
  /\ UNCHANGED out

StepGenkey(p) ==
  /\ At(p, "genkey")
  /\ \E fault \in BOOLEAN : Advance(p, Genkey(fs, fault), local[p])
  /\ UNCHANGED out

StepOpenServerConf(p) ==
  /\ At(p, "open_server_conf")
  /\ \E fault \in BOOLEAN : Advance(p, OpenServerConf(fs, fault), local[p])
  /\ UNCHANGED out

StepWriteServerConf(p) ==
  /\ At(p, "write_server_conf")
  /\ \E fault \in BOOLEAN :
       Advance(p, WriteServerConf(fs, local[p].server_name, fault), local[p])
  /\ UNCHANGED out

(***************************************************************************)
(* generate_client(name)                                                   *)
(***************************************************************************)
StepLoadConfig(p) ==
  /\ At(p, "load_config")
  /\ LET r == LoadConfig(fs)
     IN  Advance(p, IF r.ok THEN Ok(fs) ELSE Raise(fs, "IOFailure"),
                 [local[p] EXCEPT !.config = r.config])
  /\ UNCHANGED out

StepBuildClient(p) ==
  /\ At(p, "build_client")
  /\ \E fault \in BOOLEAN :
       Advance(p, Easyrsa(fs, << "build-client-full", arg[p], "nopass" >>, fault),
               local[p])
  /\ UNCHANGED out

StepOpenOvpn(p) ==
  /\ At(p, "open_ovpn")
  /\ \E fault \in BOOLEAN : Advance(p, OpenOvpn(fs, arg[p], fault), local[p])
  /\ UNCHANGED out

StepWriteOvpn(p) ==
  /\ At(p, "write_ovpn")
  /\ \E fault \in BOOLEAN :
       Advance(p, WriteOvpn(fs, local[p].config, arg[p], fault), local[p])
  /\ UNCHANGED out

(***************************************************************************)
(* revoke(name), list_(), crl()                                            *)
(***************************************************************************)
StepRevoke(p) ==
  /\ At(p, "revoke")
  /\ \E fault \in BOOLEAN :
       Advance(p, Easyrsa(fs, << "--batch", "revoke", arg[p] >>, fault), local[p])
  /\ UNCHANGED out

StepGenCrl(p) ==
  /\ At(p, "gen_crl")
  /\ \E fault \in BOOLEAN : Advance(p, Easyrsa(fs, << "gen-crl" >>, fault), local[p])
  /\ UNCHANGED out

StepList(p) ==
  /\ At(p, "list")
  /\ LET r == ListIndex(fs)
     IN  /\ out' = [out EXCEPT ![p] = r.data]
         /\ Advance(p, IF r.ok THEN Ok(fs) ELSE Raise(fs, "IOFailure"), local[p])

StepCrlGen(p) ==
  /\ At(p, "crl_gen")
  /\ \E fault \in BOOLEAN : Advance(p, Easyrsa(fs, << "gen-crl" >>, fault), local[p])
  /\ UNCHANGED out

StepCrlRead(p) ==
  /\ At(p, "crl_read")
  /\ LET r == Read(fs.pki.crl)
     IN  /\ out' = [out EXCEPT ![p] = r.data]
         /\ Advance(p, IF r.ok THEN Ok(fs) ELSE Raise(fs, "IOFailure"), local[p])

(***************************************************************************)
(* One operation per execution: the command line is run by process 1.      *)
(***************************************************************************)
Step(p) ==
  \/ StepMakedirs(p) \/ StepUrlretrieve(p) \/ StepExtract(p) \/ StepInstall(p)
  \/ StepInitPki(p) \/ StepBuildCa(p) \/ StepGenName(p) \/ StepDumpConfig(p)
  \/ StepBuildServer(p) \/ StepGenkey(p) \/ StepOpenServerConf(p)
  \/ StepWriteServerConf(p)
  \/ StepLoadConfig(p) \/ StepBuildClient(p) \/ StepOpenOvpn(p) \/ StepWriteOvpn(p)
  \/ StepRevoke(p) \/ StepGenCrl(p) \/ StepList(p) \/ StepCrlGen(p) \/ StepCrlRead(p)

Next ==
  \/ \E verb \in DOMAIN Actions : Invoke(1, verb)
  \/ Step(1)

Spec == Init /\ [][Next]_vars

(***************************************************************************)
(* Two executions of "server" against one destination, their steps         *)
(* interleaved: each process is one run of __main__.                       *)
(***************************************************************************)
\* __main__ of process p: actions['server'](hostname), whatever the other
\* process is doing
Start(p) ==
  /\ Idle(p)
  /\ \E a \in Hostnames :
       /\ todo' = [todo EXCEPT ![p] = Actions["server"]]
       /\ arg' = [arg EXCEPT ![p] = a]
  /\ local' = [local EXCEPT ![p] = NoLocal]
  /\ result' = [result EXCEPT ![p] = [op |-> "server", status |-> "running", err |-> ""]]
  /\ out' = [out EXCEPT ![p] = <<>>]
  /\ UNCHANGED << fs, hist >>

\* the steps of generate_server
StepServer(p) ==
  \/ StepMakedirs(p) \/ StepUrlretrieve(p) \/ StepExtract(p) \/ StepInstall(p)
  \/ StepInitPki(p) \/ StepBuildCa(p) \/ StepGenName(p) \/ StepDumpConfig(p)
  \/ StepBuildServer(p) \/ StepGenkey(p) \/ StepOpenServerConf(p)
  \/ StepWriteServerConf(p)

NextConc == \E p \in Procs : Start(p) \/ StepServer(p)

SpecConc == Init /\ [][NextConc]_vars

(***************************************************************************)
(* read_cert on its own: a store that holds one certificate file, any text *)
(* of dashes, letters and newlines before its one PEM block, and a process *)
(* that reads it.                                                          *)
(***************************************************************************)
LeadAtoms == { "-", "t", "\n" }
Leads == UNION { [1..k -> LeadAtoms] : k \in 0..MaxLead }
Bodies == { << "b" >>, << "b", "\n", "c" >> }

\* pki/issued/<name>.crt
CertFile(lead, body) == MkFile(lead \o Pem("CERTIFICATE", body))

InitCert ==
  /\ \E lead \in Leads : \E body \in Bodies :
       fs = [EmptyStore EXCEPT !.dest = TRUE, !.pki.dir = TRUE,
                               !.pki.issued[Alice] = CertFile(lead, body)]
  /\ todo = [p \in Procs |-> IF p = 1 THEN << "read_cert" >> ELSE <<>>]
  /\ arg = [p \in Procs |-> IF p = 1 THEN Alice ELSE <<>>]
  /\ local = [p \in Procs |-> NoLocal]
  /\ result = [p \in Procs |->
                 IF p = 1 THEN [op |-> "read_cert", status |-> "running", err |-> ""]
                 ELSE [op |-> "none", status |-> "none", err |-> ""]]
  /\ out = [p \in Procs |-> <<>>]
  /\ hist = [bootstrapped |-> FALSE, revoked |-> {}, record |-> NoLocal.config]

\* self.read_cert(name)
StepReadCert(p) ==
  /\ At(p, "read_cert")
  /\ LET r == ReadCert(fs.pki.issued[arg[p]])
     IN  /\ out' = [out EXCEPT ![p] = r.data]
         /\ Advance(p, IF r.ok THEN Ok(fs) ELSE Raise(fs, "IOFailure"), local[p])

NextCert == StepReadCert(1)

SpecCert == InitCert /\ [][NextCert]_vars

(***************************************************************************)
(* Reading a rendered document back.                                       *)
(***************************************************************************)
Range(s) == { s[i] : i \in 1..Len(s) }

\* the index of the first atom a of s, 0 if there is none
Pos(s, a) ==
  LET at == { i \in 1..Len(s) : s[i] = a }
  IN  IF at = {} THEN 0 ELSE CHOOSE i \in at : \A j \in at : i <= j

Count(s, a) == Cardinality({ i \in 1..Len(s) : s[i] = a })

RECURSIVE SplitLines(_)
SplitLines(s) ==
  LET j == Pos(s, "\n") IN
  IF j = 0 THEN (IF s = <<>> THEN <<>> ELSE <<s>>)
  ELSE <<SubSeq(s, 1, j - 1)>> \o SplitLines(SubSeq(s, j + 1, Len(s)))

\* the lines of doc whose first atom is key
LinesOf(doc, key) ==
  { LET rest == SubSeq(doc, k, Len(doc))
        stop == Pos(rest, "\n")
    IN  SubSeq(rest, 1, IF stop = 0 THEN Len(rest) ELSE stop - 1)
    : k \in { i \in 1..Len(doc) :
                doc[i] = key /\ (i = 1 \/ doc[i - 1] = "\n") } }

Written(file) == file.ex /\ file.data # <<>>

AllIdle == \A p \in Procs : Idle(p)
Finished(p, verb, status) ==
  Idle(p) /\ result[p].op = verb /\ result[p].status = status

(***************************************************************************)
(* Claims.                                                                 *)
(***************************************************************************)
NoDuplicates(index) ==
  \A i, j \in 1..Len(index) : index[i].name = index[j].name => i = j

\* the serial of name is listed in crl.pem
InCrl(pki, name) ==
  /\ pki.crl.ex
  /\ name \in IndexNames(pki)
  /\ \E k \in 1..(Len(pki.crl.data) - 2) :
       /\ pki.crl.data[k] = "Serial Number:"
       /\ pki.crl.data[k + 2] = ToString(SerialOf(pki, name))

\* C1: a Bootstrap on a destination that already exists fails with
\* AlreadyExists at its first step and leaves the whole store as it was.
C1_SecondBootstrapRejected ==
  [][ \A p \in Procs :
        (At(p, "makedirs") /\ fs.dest /\ todo'[p] # todo[p])
        => /\ todo'[p] = <<>>
           /\ result'[p].status = "fail"
           /\ result'[p].err = "AlreadyExists"
           /\ fs' = fs ]_vars

C1_Witness ==
  \E p \in Procs :
    /\ Finished(p, "server", "fail")
    /\ result[p].err = "AlreadyExists"
    /\ hist.bootstrapped
    /\ Written(fs.server_conf)

\* C2: no name is issued twice: the index never lists a name twice, and
\* AddClient with a name the index already lists (valid or revoked, the
\* server's included) fails at the issuance and changes nothing.
C2_IssueAtMostOnce ==
  [][ /\ NoDuplicates(fs'.pki.index)
      /\ \A p \in Procs :
           (At(p, "build_client") /\ arg[p] \in IndexNames(fs.pki)
              /\ todo'[p] # todo[p])
           => /\ todo'[p] = <<>>
              /\ result'[p].status = "fail"
              /\ result'[p].err \in {"IdentityAlreadyExists", "DriverFailure"}
              /\ fs' = fs ]_vars

C2_Witness ==
  \E p \in Procs :
    /\ Finished(p, "client", "fail")
    /\ result[p].err = "IdentityAlreadyExists"
    /\ arg[p] \in RevokedNames(fs.pki)
    /\ Written(fs.ovpn[arg[p]])

\* C3: once Revoke(name) has returned, crl.pem lists name in every later
\* state, whatever regenerates it, and a further Revoke(name) fails at the
\* revoke step and changes nothing.
C3_RevokedStaysListed ==
  [][ /\ \A n \in hist'.revoked : InCrl(fs'.pki, n)
      /\ \A p \in Procs :
           (At(p, "revoke") /\ arg[p] \in hist.revoked /\ todo'[p] # todo[p])
           => /\ todo'[p] = <<>>
              /\ result'[p].status = "fail"
              /\ result'[p].err \in {"AlreadyRevoked", "DriverFailure"}
              /\ fs' = fs ]_vars

C3_Witness ==
  \E p \in Procs :
    /\ Finished(p, "revoke", "fail")
    /\ result[p].err = "AlreadyRevoked"
    /\ arg[p] \in hist.revoked
    /\ Cardinality(hist.revoked) >= 2

\* C4: between operations, ca.crt and tls.key both exist exactly when
\* generate_server has returned.
C4_BothExistIffBootstrapped ==
  AllIdle => ((fs.pki.ca.ex /\ fs.tls.ex) <=> hist.bootstrapped)

\* C5: an AddClient or Revoke run while generate_server has not returned
\* issues nothing, revokes nothing, writes no client config, and fails.
C5_IdentityOpsNeedBootstrap ==
  [][ \A p \in Procs :
        (~Idle(p) /\ result[p].op \in {"client", "revoke"} /\ ~hist.bootstrapped)
        => /\ fs'.pki.index = fs.pki.index
           /\ fs'.pki.issued = fs.pki.issued
           /\ fs'.ovpn = fs.ovpn
           /\ result'[p].status # "ok" ]_vars

\* the lines a client config pins its server with
RemoteLine(hostname) == << "remote", " " >> \o hostname \o << " ", "1194" >>
VerifyLine(name) == << "verify-x509-name", " " >> \o name \o << " ", "name" >>

\* C6: in every client config written, the remote line carries the hostname
\* and the verify-x509-name line the server name of the deployment record
\* (config.json, which holds what generate_server was given and generated).
C6_ClientPinsServerName ==
  \A n \in AllNames :
    Written(fs.ovpn[n]) =>
      LET doc == fs.ovpn[n].data
          rec == JsonLoad(fs.config.data)
      IN  /\ fs.config.ex
          /\ rec = hist.record
          /\ LinesOf(doc, "remote") = { RemoteLine(rec.hostname) }
          /\ LinesOf(doc, "verify-x509-name") = { VerifyLine(rec.server_name) }
          /\ VerifyLine(rec.hostname) \notin LinesOf(doc, "verify-x509-name")

C6_Witness ==
  /\ Written(fs.ovpn[Alice])
  /\ hist.record.hostname = << "h", "\"", "x" >>
  /\ \E p \in Procs : Finished(p, "client", "ok") /\ arg[p] = Alice

Tags ==
  << "<ca>", "</ca>", "<cert>", "</cert>", "<key>", "</key>",
     "<tls-crypt>", "</tls-crypt>" >>

FirstAtoms(lines) == [i \in 1..Len(lines) |-> lines[i][1]]

IsTag(a) == a \in Range(Tags)

\* doc is a config of the given role rendered for identity id
RenderedFor(doc, role, id) ==
  LET \* where the tags of doc are, in the order they occur
      pos == SelectSeq([i \in 1..Len(doc) |-> i], LAMBDA i : IsTag(doc[i]))
      rolePart == SubSeq(doc, Len(COMMON_CONF) + 1, pos[1] - 1)
      \* the atoms strictly between Tags[i] and Tags[i + 1]
      section(i) == SubSeq(doc, pos[i] + 1, pos[i + 1] - 1)
      wrapped(text) == << "\n" >> \o text \o << "\n" >>
  IN  /\ [i \in 1..Len(pos) |-> doc[pos[i]]] = Tags
      /\ pos[Len(Tags)] = Len(doc) - 1
      /\ SubSeq(doc, 1, Len(COMMON_CONF)) = COMMON_CONF
      /\ IF role = "server" THEN rolePart = SERVER_CONF
         ELSE FirstAtoms(SplitLines(rolePart)) =
                << "client", "remote", "resolv-retry infinite", "nobind",
                   "remote-cert-tls server", "verify-x509-name" >>
      /\ \A i \in {2, 4, 6} : section(i) = << "\n" >>
      /\ section(1) = wrapped(Strip(fs.pki.ca.data))
      /\ section(1) = wrapped(Strip(CaCrtText))
      /\ section(3) = wrapped(Strip(Pem("CERTIFICATE", CertBody(id))))
      /\ Count(section(3), "BEGIN CERTIFICATE") = 1
      /\ Count(section(3), "END CERTIFICATE") = 1
      /\ section(5) = wrapped(Strip(fs.pki.private[id].data))
      /\ section(5) = wrapped(Strip(KeyText(id)))
      /\ section(7) = wrapped(Strip(fs.tls.data))

\* C7: every config written is the common settings, the role settings and
\* the inline block: CA certificate, the identity's certificate body inside
\* the template's one BEGIN/END CERTIFICATE pair, the identity's private key
\* and the shared key, in that order.
C7_ConfigStructure ==
  /\ Written(fs.server_conf) =>
       RenderedFor(fs.server_conf.data, "server", hist.record.server_name)
  /\ \A n \in AllNames :
       Written(fs.ovpn[n]) => RenderedFor(fs.ovpn[n].data, "client", n)

C7_Witness ==
  /\ Written(fs.server_conf)
  /\ Written(fs.ovpn[Alice])

\* C8: the render step of generate_client leaves the PKI store, the shared
\* key and the deployment record as they were, and a second render of the
\* same client from the store it leaves is the document it wrote.
C8_RenderIsPure ==
  [][ \A p \in Procs :
        (At(p, "write_ovpn") /\ todo'[p] # todo[p])
        => /\ fs'.pki = fs.pki
           /\ fs'.tls = fs.tls
           /\ fs'.config = fs.config
           /\ fs'.server_conf = fs.server_conf
           /\ \A n \in AllNames \ {arg[p]} : fs'.ovpn[n] = fs.ovpn[n]
           /\ result'[p].status = "ok" =>
                LET again == RenderClientConfig(fs', LoadConfig(fs').config, arg[p])
                IN  again.ok /\ again.data = fs'.ovpn[arg[p]].data ]_vars

C8_Witness ==
  \E p \in Procs :
    /\ Finished(p, "client", "ok")
    /\ Written(fs.ovpn[arg[p]])
    /\ fs.pki.crl.ex

\* a client config can be rendered for name from the store f
Renderable(f, name) ==
  LoadConfig(f).ok /\ RenderClientConfig(f, LoadConfig(f).config, name).ok

\* C9: the certificate and key of a name are readable exactly when the name
\* was issued, revoked or not, and the certificate read is that name's; and
\* a revoked name whose client config could be rendered before a step, the
\* step that revokes it included, can still be rendered after it.
C9_RevokedStillRenders ==
  /\ [](\A n \in AllNames :
          /\ ReadCert(fs.pki.issued[n]).ok <=> n \in IndexNames(fs.pki)
          /\ Read(fs.pki.private[n]).ok <=> n \in IndexNames(fs.pki)
          /\ n \in RevokedNames(fs.pki) =>
               ReadCert(fs.pki.issued[n]).data = CertBody(n))
  /\ [][fs' # fs =>
          \A n \in RevokedNames(fs'.pki) :
            Renderable(fs, n) => Renderable(fs', n)]_vars

C9_Witness ==
  /\ Alice \in hist.revoked
  /\ Renderable(fs, Alice)
  /\ RenderClientConfig(fs, LoadConfig(fs).config, Alice).data = fs.ovpn[Alice].data
  /\ AllNames \ IndexNames(fs.pki) # {}

Letters ==
  { "a", "b", "c", "d", "e", "f", "g", "h", "i", "j", "k", "l", "m",
    "n", "o", "p", "q", "r", "s", "t", "u", "v", "w", "x", "y", "z" }
Alphanumeric == Range(Alphabet) \cup Letters

\* the server name is in the record, in the index and in every client config
ServerNameEmbedded(sn) ==
  /\ JsonLoad(fs.config.data).server_name = sn
  /\ hist.bootstrapped =>
       /\ sn \in IndexNames(fs.pki)
       /\ fs.pki.issued[sn].data = CertText(sn, SerialOf(fs.pki, sn), "server")
  /\ \A n \in AllNames :
       Written(fs.ovpn[n]) =>
         LinesOf(fs.ovpn[n].data, "verify-x509-name") = { VerifyLine(sn) }

\* C10 as stated: the server identity name is a 16-character alphanumeric
\* token, embedded verbatim.
C10_SixteenCharacterName ==
  fs.config.ex =>
    LET sn == hist.record.server_name
    IN  /\ Len(sn) = IdLen
        /\ Range(sn) \subseteq Alphanumeric
        /\ ServerNameEmbedded(sn)

\* C10, amended: the server identity name is 'server_' followed by a token of
\* IdLen characters, each an uppercase letter or a digit; that name is the
\* one in the deployment record, the one issued, and the one every client
\* config pins.
C10_PrefixedToken ==
  fs.config.ex =>
    LET sn == hist.record.server_name
        token == SubSeq(sn, Len(ServerPrefix) + 1, Len(sn))
    IN  /\ SubSeq(sn, 1, Len(ServerPrefix)) = ServerPrefix
        /\ Len(token) = IdLen
        /\ Range(token) \subseteq Range(Alphabet)
        /\ ServerNameEmbedded(sn)

C10_Witness ==
  /\ hist.bootstrapped
  /\ hist.record.server_name = ServerName(Choices(2))
  /\ Written(fs.ovpn[Alice])

\* the steps that invoke the toolchain (easyrsa or openvpn)
ToolSteps ==
  { "init_pki", "build_ca", "build_server", "genkey", "build_client", "revoke",
    "gen_crl", "crl_gen" }

\* the step p takes at s shows a toolchain run that exited non-zero: what a
\* successful run always produces is not there (gen-crl may rewrite the same
\* list, so there only the exception tells)
ExitedNonZero(p, s) ==
  /\ At(p, s)
  /\ todo'[p] # todo[p]
  /\ CASE s = "init_pki" -> ~fs'.pki.dir
       [] s = "build_ca" -> ~fs'.pki.ca.ex
       [] s \in {"build_server", "build_client", "revoke"} ->
            fs'.pki.index = fs.pki.index
       [] s = "genkey" -> ~fs'.tls.ex
       [] OTHER -> result'[p].status = "fail"

\* C11: a toolchain invocation that exits non-zero ends the operation there:
\* the process stops as failed with nothing left to run and the store as it
\* was, so a failed issuance leaves the client config as it was, a failed
\* revoke leaves crl.pem as it was, and a Bootstrap so ended has no server.conf.
C11_ToolFailureAborts ==
  [][ \A p \in Procs : \A s \in ToolSteps :
        ExitedNonZero(p, s)
        => /\ todo'[p] = <<>>
           /\ result'[p].status = "fail"
           /\ fs' = fs
           /\ result[p].op = "client" => fs'.ovpn[arg[p]] = fs.ovpn[arg[p]]
           /\ result[p].op = "revoke" => fs'.pki.crl = fs.pki.crl
           /\ result[p].op = "server" => ~fs'.server_conf.ex ]_vars

C11_Witness ==
  \E p \in Procs :
    /\ Finished(p, "server", "fail")
    /\ result[p].err = "DriverFailure"
    /\ fs.pki.index # <<>>
    /\ ~fs.tls.ex
    /\ ~fs.server_conf.ex

\* C12: no step removes a name from the index, un-revokes a revoked name, or
\* deletes or changes the certificate and key of a name the index lists.
C12_RevocationOneWay ==
  [][ /\ IndexNames(fs.pki) \subseteq IndexNames(fs'.pki)
      /\ RevokedNames(fs.pki) \subseteq RevokedNames(fs'.pki)
      /\ \A n \in IndexNames(fs.pki) :
           /\ SerialOf(fs'.pki, n) = SerialOf(fs.pki, n)
           /\ fs'.pki.issued[n] = fs.pki.issued[n]
           /\ fs'.pki.private[n] = fs.pki.private[n] ]_vars

C12_Witness ==
  \E p \in Procs :
    /\ Finished(p, "server", "fail")
    /\ Alice \in RevokedNames(fs.pki)
    /\ Cardinality(IndexNames(fs.pki)) = 2
    /\ InCrl(fs.pki, Alice)

\* the steps that write config.json, pki/ca.crt or tls.key
FoundingSteps == { "init_pki", "build_ca", "dump_config", "genkey" }

\* C13: once generate_server has returned, no step changes config.json,
\* pki/ca.crt or tls.key, and no process ever stands at a step that writes
\* one of them; config.json is written once: no step changes an existing one.
C13_FoundationImmutable ==
  [][ /\ hist.bootstrapped =>
           /\ fs'.config = fs.config
           /\ fs'.pki.ca = fs.pki.ca
           /\ fs'.tls = fs.tls
           /\ \A p \in Procs :
                todo'[p] = <<>> \/ Head(todo'[p]) \notin FoundingSteps
      /\ fs.config.ex => fs'.config = fs.config ]_vars

C13_Witness ==
  \E p \in Procs :
    /\ hist.bootstrapped
    /\ Finished(p, "crl", "ok")
    /\ Alice \in hist.revoked
    /\ Written(fs.ovpn[Alice])
    /\ JsonLoad(fs.config.data) = hist.record

\* the serials crl.pem lists
CrlSerials(pki) ==
  { pki.crl.data[k + 2] :
      k \in { i \in 1..(Len(pki.crl.data) - 2) : pki.crl.data[i] = "Serial Number:" } }

\* crl.pem lists the names the index marks revoked, each once, and no other
CrlExact(pki) ==
  /\ pki.crl.ex
  /\ CrlSerials(pki) = { ToString(SerialOf(pki, n)) : n \in RevokedNames(pki) }
  /\ Count(pki.crl.data, "Serial Number:") = Cardinality(RevokedNames(pki))

\* C14: when revoke or crl has returned, crl.pem lists exactly the names the
\* index marks revoked, and crl has printed that list; a step of crl changes
\* nothing of the store but crl.pem, and nothing at all when crl.pem already
\* lists exactly the revoked names.
C14_CrlIsFunctionOfIndex ==
  /\ [](\A p \in Procs :
          /\ (Finished(p, "crl", "ok") \/ Finished(p, "revoke", "ok"))
               => CrlExact(fs.pki)
          /\ Finished(p, "crl", "ok") => out[p] = Strip(fs.pki.crl.data))
  /\ [][\A p \in Procs :
          (result[p].op = "crl" /\ ~Idle(p))
          => /\ fs' = [fs EXCEPT !.pki.crl = fs'.pki.crl]
             /\ CrlExact(fs.pki) => fs' = fs]_vars

C14_Witness ==
  \E p \in Procs :
    /\ Finished(p, "crl", "ok")
    /\ Cardinality(RevokedNames(fs.pki)) = 2
    /\ CrlExact(fs.pki)
    /\ Cardinality(CrlSerials(fs.pki)) = 2

\* the store has what easyrsa needs to look a name up: easyrsa/ and a pki
\* with its CA
ToolchainReady(f) == f.dest /\ f.easyrsa /\ f.pki.dir /\ f.pki.ca.ex

\* C15: a step of Revoke(name) for a name the index does not list ends the
\* operation as failed and leaves the whole store, index and crl.pem
\* included, as it was; where the toolchain can run, the failure is NotFound
\* (or the toolchain's own DriverFailure).
C15_RevokeUnknownFails ==
  [][ \A p \in Procs :
        (result[p].op = "revoke" /\ ~Idle(p) /\ arg[p] \notin IndexNames(fs.pki)
           /\ todo'[p] # todo[p])
        => /\ todo'[p] = <<>>
           /\ result'[p].status = "fail"
           /\ fs' = fs
           /\ RevokedNames(fs'.pki) = RevokedNames(fs.pki)
           /\ ToolchainReady(fs) => result'[p].err \in {"NotFound", "DriverFailure"}
     ]_vars

C15_Witness ==
  \E p \in Procs :
    /\ Finished(p, "revoke", "fail")
    /\ result[p].err = "NotFound"
    /\ arg[p] \notin IndexNames(fs.pki)
    /\ hist.bootstrapped
    /\ fs.pki.crl.ex
    /\ ~CrlExact(fs.pki)

\* C16: no step of List changes anything in the store; where pki/index.txt
\* exists List prints it, whitespace-stripped, and returns, and where it does
\* not List fails.
C16_ListReadOnly ==
  [][ \A p \in Procs :
        (result[p].op = "list" /\ ~Idle(p) /\ todo'[p] # todo[p])
        => /\ fs' = fs
           /\ todo'[p] = <<>>
           /\ IF fs.pki.hasIndex
              THEN /\ result'[p].status = "ok"
                   /\ out'[p] = Strip(IndexText(fs.pki.index))
              ELSE result'[p].status = "fail" ]_vars

C16_Witness ==
  \E p \in Procs :
    /\ Finished(p, "list", "ok")
    /\ Alice \in RevokedNames(fs.pki)
    /\ Len(fs.pki.index) = 2
    /\ out[p] = Strip(IndexText(fs.pki.index))
    /\ Count(out[p], "R") = 1

\* C17 as stated: tls.key exists whenever config.json has been persisted or
\* an identity has been issued.
C17_SharedKeyFirst ==
  (fs.config.ex \/ fs.pki.index # <<>>) => fs.tls.ex

\* C17: what exists in the store shows the order of generate_server: the
\* directory and easyrsa/ before the pki, the pki before its CA, the CA
\* before config.json (which holds the generated server name), config.json
\* before any issuance, the server's identity issued before tls.key,
\* tls.key before server.conf; tls.key does not exist while
\* config.json is being persisted or the server identity is being issued.
C17_BootstrapOrder ==
  /\ fs.pki.dir => (fs.dest /\ fs.easyrsa)
  /\ fs.pki.ca.ex => fs.pki.dir
  /\ fs.config.ex =>
       (fs.pki.ca.ex /\ JsonLoad(fs.config.data).server_name \in ServerNames)
  /\ fs.pki.index # <<>> => fs.config.ex
  /\ fs.tls.ex =>
       (fs.config.ex /\ JsonLoad(fs.config.data).server_name \in IndexNames(fs.pki))
  /\ fs.server_conf.ex => fs.tls.ex
  /\ \A p \in Procs :
       (At(p, "dump_config") \/ At(p, "build_server")) => ~fs.tls.ex

C17_Witness ==
  \E p \in Procs :
    /\ At(p, "genkey")
    /\ fs.config.ex
    /\ local[p].server_name \in IndexNames(fs.pki)
    /\ ~fs.tls.ex

\* the destination exists, generate_server has never returned, and no
\* generate_server is past its os.makedirs: a partially created store
PartialStore ==
  /\ fs.dest
  /\ ~hist.bootstrapped
  /\ \A p \in Procs :
       (result[p].op = "server" /\ ~Idle(p)) => At(p, "makedirs")

\* C18: the destination, once created, is never removed, and the step at
\* which a Bootstrap fails leaves the store as the steps before it made it;
\* a Bootstrap on an existing destination fails at once with AlreadyExists;
\* and a partially created store stays one whatever operation runs.
C18_PartialStoreStays ==
  [][ /\ fs.dest => fs'.dest
      /\ \A p \in Procs :
           /\ (result[p].op = "server" /\ ~Idle(p) /\ result'[p].status = "fail")
                => fs' = fs
           /\ (At(p, "makedirs") /\ fs.dest /\ todo'[p] # todo[p])
                => (result'[p].status = "fail" /\ result'[p].err = "AlreadyExists")
      /\ PartialStore => (PartialStore' /\ ~hist'.bootstrapped) ]_vars

C18_Witness ==
  \E p \in Procs :
    /\ PartialStore
    /\ Finished(p, "server", "fail")
    /\ result[p].err = "AlreadyExists"
    /\ fs.tls.ex
    /\ Alice \in IndexNames(fs.pki)

\* C19: read_cert of a file that is any leading text followed by one PEM
\* block returns the body of that block: the text between the BEGIN and END
\* delimiter lines, without the newlines that bound it, and with no dash, no
\* delimiter label and nothing of the leading text in it.
C19_BodyBetweenDelimiters ==
  \A p \in Procs :
    Finished(p, "read_cert", "fail") \/ Finished(p, "read_cert", "ok")
    => /\ result[p].status = "ok"
       /\ \E lead \in Leads :
            fs.pki.issued[arg[p]] = CertFile(lead, out[p])
       /\ out[p] \in Bodies
       /\ Range(out[p]) \cap { "-", "t", "BEGIN CERTIFICATE", "END CERTIFICATE" } = {}

C19_Witness ==
  \E p \in Procs :
    /\ Finished(p, "read_cert", "ok")
    /\ fs.pki.issued[arg[p]] = CertFile(<< "t", "-", "-", "-", "-" >>, out[p])
    /\ out[p] = << "b", "\n", "c" >>

\* the processes that are past os.makedirs in generate_server
PastMakedirs == { p \in Procs : ~Idle(p) /\ ~At(p, "makedirs") }

\* C20: of two Bootstraps interleaved on one destination at most one is
\* past the creation of the directory; os.makedirs succeeds only where the
\* destination does not exist and no other process is past it, the
\* destination once created stays, and a process that finds it fails with
\* AlreadyExists at that first step, the store untouched.
C20_OneBootstrapPastMakedirs ==
  /\ [](Cardinality(PastMakedirs) <= 1)
  /\ [][ /\ fs.dest => fs'.dest
         /\ \A p \in Procs :
              (At(p, "makedirs") /\ todo'[p] # todo[p])
              => IF fs.dest
                 THEN /\ todo'[p] = <<>>
                      /\ result'[p].status = "fail"
                      /\ result'[p].err = "AlreadyExists"
                      /\ fs' = fs
                 ELSE /\ PastMakedirs = {}
                      /\ fs' = [fs EXCEPT !.dest = TRUE] ]_vars

C20_Witness ==
  /\ At(1, "build_server")
  /\ Finished(2, "server", "fail")
  /\ result[2].err = "AlreadyExists"
  /\ arg[1] # arg[2]
  /\ ~hist.bootstrapped

=============================================================================
